---- MODULE Spec2Model ----
(***************************************************************************)
(* State-machine model of the subscription flow controller                 *)
(* (src/src/components/Main.tsx): wallet and chain state, the three        *)
(* contract reads, the purchase handler with its delayed precondition      *)
(* gate, the batched call request, the success notifications and the       *)
(* de-duplicated error relay.                                              *)
(*                                                                         *)
(* Conventions.  An optional JavaScript value is a sequence: <<>> is       *)
(* undefined/null and <<v>> is the value v.  A JavaScript number used as   *)
(* an identity is a record [k, n, d]: k is "undefined", "NaN" or "num",    *)
(* and a "num" is the rational n/d (d = 1 for an integer).                 *)
(***************************************************************************)
EXTENDS Integers, Sequences, FiniteSets, TLC

----------------------------------------------------------------------------
(* Program constants *)

TIER_REGISTRY_ADDRESS == "0x00000000fc84484d585C3cF48d213424DFDE43FD"
USDC_ADDRESS == "0x833589fCD6eDb6E08f4c7C32D4f71b54bdA02913"
EXTRA_FEE_RECIPIENT == "0x21808EE320eDF64c019A6bb0F7E4bFB3d62F06Ec"
EXTRA_FEE == 500000
BaseId == 8453
TierId == 1
ForDays == 30
OperatorFid == 268438
BalanceDecimals == 6
DefaultDecimals == 6
NULL == ""

----------------------------------------------------------------------------
(* Bounds and input sets *)

\* pending setTimeout callbacks of handleBatchPurchase held at one time
MaxTimers == 2

None == <<>>
Some(v) == <<v>>

\* the same stablecoin address as the registry may report it (lower case)
UsdcLower == "0x833589fcd6edb6e08f4c7c32d4f71b54bda02913"
OtherToken == "0x4200000000000000000000000000000000000006"

\* chains the wallet can be on: Base and one other configured chain
ChainIds == {BaseId, 1}
\* tierInfo(1) results the registry read can return
TierInfos ==
    { [paymentToken |-> USDC_ADDRESS, isActive |-> TRUE],
      [paymentToken |-> UsdcLower, isActive |-> TRUE],
      [paymentToken |-> USDC_ADDRESS, isActive |-> FALSE],
      [paymentToken |-> OtherToken, isActive |-> TRUE] }
\* price(1, 30) results, in smallest units
Prices == {4500000}
\* decimals() results
DecimalsValues == {6, 7}
\* stablecoin balances of the wallet, in smallest units
Balances == {1000000, 5000000}
\* messages of the Error objects the hooks report
ErrMsgs == {"rpc"}

FidUndefined == [k |-> "undefined", n |-> 0, d |-> 1]
FidNaN == [k |-> "NaN", n |-> 0, d |-> 1]
FidNum(n) == [k |-> "num", n |-> n, d |-> 1]
FidFrac(n, d) == [k |-> "num", n |-> n, d |-> d]

\* the session user's own identity (context.user.fid)
UserFid == FidNum(1)
\* values of the castFid query parameter (NULL: absent)
CastFids == {NULL, "2", "0", "abc", "-1", "1.5"}
\* response.data.fid values of the name-proof lookup
SearchFids == {FidNum(2), FidNum(1), FidUndefined}

----------------------------------------------------------------------------
(* JavaScript and viem helpers *)

\* String.prototype.toLowerCase on the addresses of the model
toLowerCase(a) == IF a = USDC_ADDRESS THEN UsdcLower ELSE a

\* Number(castFid) for the query strings of CastFids
NumberOfString(s) ==
    IF s = "2" THEN FidNum(2)
    ELSE IF s = "0" THEN FidNum(0)
    ELSE IF s = "-1" THEN FidNum(0 - 1)
    ELSE IF s = "1.5" THEN FidFrac(3, 2)
    ELSE FidNaN

\* Number(x) of a number|undefined
ToNumber(f) == IF f.k = "undefined" THEN FidNaN ELSE f

\* !x for a number|undefined
FalsyNum(f) == f.k # "num" \/ f.n = 0
\* isNaN(Number(x))
IsNaNNumber(f) == ToNumber(f).k = "NaN"
\* !x for a bigint|undefined
FalsyBig(o) == o = None \/ o[1] = 0
\* BigInt(x) throws a RangeError on a number that is not an integer
BigIntThrows(f) == f.k # "num" \/ f.d # 1
\* viem's encodeFunctionData rejects a uint256 argument below zero
EncodeUintThrows(n) == n < 0

RECURSIVE Pow10(_)
Pow10(n) == IF n = 0 THEN 1 ELSE 10 * Pow10(n - 1)

Min(a, b) == IF a < b THEN a ELSE b

\* Number(formatUnits(a, da)) < Number(formatUnits(b, db)), as exact
\* rationals: a / 10^da < b / 10^db
UnitsLess(a, da, b, db) ==
    LET m == Min(da, db)
    IN  a * Pow10(db - m) < b * Pow10(da - m)

----------------------------------------------------------------------------
(* State *)

VARIABLES
    castFid,            \* searchParams.get("castFid"), fixed for the session
    context,            \* sdk.context once loaded: <<[fid |-> ...]>>
    isConnected,        \* useAccount().isConnected
    chain,              \* useAccount().chain?.id
    chainId,            \* useChainId()
    tierInfoData, tierInfoError,    \* useReadContract tierInfo(1)
    decimalsData, decimalsError,    \* useReadContract decimals()
    priceData, priceError,          \* useReadContract price(1, 30)
    balance,            \* useBalance().data?.value
    txStatus,           \* useSendCalls: "idle", "pending", "success", "error"
    sendCallsError,     \* useSendCalls().error?.message
    sentCalls,          \* useSendCalls: the calls of the last request
    searchFid,          \* usernameToFid: the last response.data.fid
    data,               \* proStatus result: <<expires_at>>, in seconds
    now,                \* new Date() of the last render of the status line,
                        \* as an index in StatusNows
    timeLeft,           \* getTimeUntil(data.expires_at) of that render
    paymentToken, tokenDecimals, totalPrice,    \* useState
    error, isClicked, fid, loading,             \* useState
    profileFetch,       \* a fetchProfile request is in flight
    showToast, toastMessage,                    \* useState
    errorMessagesSent,  \* useRef(new Set<string>())
    sentCount,          \* sendMessage calls to the operator so far, per key
    failedSends,        \* keys whose sendMessage call was rejected
    timers,             \* pending setTimeout callbacks, each with its closure
    out                 \* what the last step emitted: calls, messages, cast

wallet == <<isConnected, chain, chainId>>
reads == <<tierInfoData, tierInfoError, decimalsData, decimalsError,
           priceData, priceError>>
derived == <<paymentToken, tokenDecimals, totalPrice>>
toast == <<showToast, toastMessage>>
relay == <<errorMessagesSent, sentCount, failedSends>>
tx == <<txStatus, sendCallsError, sentCalls>>
status == <<data, now, timeLeft>>
vars == <<castFid, searchFid, status, context, wallet, reads, balance, tx,
          derived, error,
          isClicked, fid, loading, profileFetch, toast, relay, timers, out>>

isTxPending == txStatus = "pending"
isTxSuccess == txStatus = "success"

\* context?.user?.fid
CtxFid(ctx) == IF ctx = None THEN FidUndefined ELSE ctx[1].fid

\* a !== b on number|undefined (NaN differs from itself)
StrictNeq(a, b) == a # b \/ a.k = "NaN"

\* userBalance, in units of 10^-6
UserBalance(bal) == IF bal = None THEN 0 ELSE bal[1]

\* nothing emitted: no calls, no messages, no cast, no callback run
Quiet == [calls |-> <<>>, dc |-> <<>>, cast |-> NULL, ran |-> <<>>]

----------------------------------------------------------------------------
(* Price, payment token and decimals effect *)

\* EffectError emptying the error state when the tier-info read is in order
EffectErrorClears(r) ==
    LET e1 == IF r.tierInfoError # None
                THEN "Failed to fetch tier info: " \o r.tierInfoError[1]
              ELSE IF r.tierInfoData # None
                THEN IF ~r.tierInfoData[1].isActive
                       THEN "Tier 1 is not active."
                     ELSE IF toLowerCase(r.tierInfoData[1].paymentToken)
                                # toLowerCase(USDC_ADDRESS)
                       THEN "Tier 1 does not use USDC as payment token."
                     ELSE NULL
              ELSE r.error
        e2 == IF r.decimalsError # None
                THEN "Failed to fetch token decimals: " \o r.decimalsError[1]
              ELSE e1
    IN  IF r.priceError # None
          THEN "Failed to fetch price: " \o r.priceError[1]
        ELSE e2

\* the error left by one run of the effect (the last setError wins)
EffectError(r) ==
    LET e1 == IF r.tierInfoError # None
                THEN "Failed to fetch tier info: " \o r.tierInfoError[1]
              ELSE IF r.tierInfoData # None
                THEN IF ~r.tierInfoData[1].isActive
                       THEN "Tier 1 is not active."
                     ELSE IF toLowerCase(r.tierInfoData[1].paymentToken)
                                # toLowerCase(USDC_ADDRESS)
                       THEN "Tier 1 does not use USDC as payment token."
                     ELSE r.error
              ELSE r.error
        e2 == IF r.decimalsError # None
                THEN "Failed to fetch token decimals: " \o r.decimalsError[1]
              ELSE e1
    IN  IF r.priceError # None
          THEN "Failed to fetch price: " \o r.priceError[1]
        ELSE e2

\* one run of the effect on the values of one render
PricePass(r) ==
    [r EXCEPT
       !.paymentToken =
           IF r.tierInfoError = None /\ r.tierInfoData # None
             THEN r.tierInfoData[1].paymentToken ELSE @,
       !.tokenDecimals =
           IF r.decimalsError = None /\ r.decimalsData # None
                /\ r.decimalsData[1] # 0
             THEN r.decimalsData[1] ELSE @,
       !.totalPrice =
           IF r.priceError = None /\ ~FalsyBig(r.priceData)
                /\ r.paymentToken # NULL
             THEN <<r.priceData[1] + EXTRA_FEE, r.tokenDecimals>> ELSE @,
       !.error = EffectError(r)]

\* the effect run until its dependencies settle; a new payment token gives
\* the decimals read a new address, whose result is not loaded yet
PriceEffect(r) ==
    LET a == PricePass(r)
        b == IF a.paymentToken = r.paymentToken THEN a
             ELSE [a EXCEPT !.decimalsData = None, !.decimalsError = None]
    IN  PricePass(b)

----------------------------------------------------------------------------
(* Error relay to the operator *)

ErrorKey(errorType, message) == errorType \o ":" \o message

\* sendErrorMessage without the look-up in the set of sent keys
sendErrorMessageNoDedup(acc, errorType, message) ==
    LET key == ErrorKey(errorType, message)
    IN  [sent |-> acc.sent \cup {key},
         count |-> [k \in DOMAIN acc.count \cup {key} |->
                      IF k = key
                        THEN (IF k \in DOMAIN acc.count
                                THEN acc.count[k] ELSE 0) + 1
                      ELSE acc.count[k]],
         dc |-> Append(acc.dc, [to |-> FidNum(OperatorFid),
                                text |-> message])]

\* if the key was sent before, nothing; else record the key, then send
sendErrorMessage(acc, errorType, message) ==
    LET key == ErrorKey(errorType, message)
    IN  IF key \in acc.sent THEN acc
        ELSE [sent |-> acc.sent \cup {key},
              count |-> [k \in DOMAIN acc.count \cup {key} |->
                           IF k = key
                             THEN (IF k \in DOMAIN acc.count
                                     THEN acc.count[k] ELSE 0) + 1
                           ELSE acc.count[k]],
              dc |-> Append(acc.dc, [to |-> FidNum(OperatorFid),
                                     text |-> message])]

\* the (errorType, message) pairs one run of the relay effect reports
RelayList(tiE, dE, pE, scE, err) ==
    (IF tiE # None
       THEN << <<"tierInfo", "Failed to fetch tier info: " \o tiE[1]>> >>
       ELSE <<>>)
    \o (IF dE # None
          THEN << <<"decimals", "Failed to fetch token decimals: " \o dE[1]>> >>
          ELSE <<>>)
    \o (IF pE # None
          THEN << <<"price", "Failed to fetch price: " \o pE[1]>> >>
          ELSE <<>>)
    \o (IF scE # None
          THEN << <<"sendCalls", "Batch transaction failed: " \o scE[1]>> >>
          ELSE <<>>)
    \o (IF err # NULL THEN << <<"general", err>> >> ELSE <<>>)

RECURSIVE RelayFold(_, _)
RelayFold(list, acc) ==
    IF list = <<>> THEN acc
    ELSE RelayFold(Tail(list), sendErrorMessage(acc, list[1][1], list[1][2]))

\* one run of the relay effect
RelayEffect(sent, count, tiE, dE, pE, scE, err) ==
    RelayFold(RelayList(tiE, dE, pE, scE, err),
              [sent |-> sent, count |-> count, dc |-> <<>>])

----------------------------------------------------------------------------
(* Rendering *)

\* the purchase view is rendered (not the fallback, loading, Connect or
\* Switch screens)
MainView ==
    /\ context # None
    /\ ~loading
    /\ isConnected
    /\ chainId = BaseId

\* the disabled attribute of the purchase button
ButtonDisabled ==
    \/ isTxPending
    \/ ~isConnected
    \/ chain # Some(BaseId)
    \/ paymentToken = NULL
    \/ FalsyBig(priceData)

\* the purchase control can be clicked
PurchaseEnabled == MainView /\ ~ButtonDisabled

\* an <ErrorMessage /> banner is rendered in the purchase view
ErrorBannerShown ==
    /\ MainView
    /\ \/ tierInfoError # None
       \/ decimalsError # None
       \/ priceError # None
       \/ error # NULL

\* the values of the current render that handleBatchPurchase closes over
Closure ==
    [isConnected |-> isConnected, chain |-> chain,
     paymentToken |-> paymentToken, priceData |-> priceData, fid |-> fid,
     tierInfoData |-> tierInfoData, isTxSuccess |-> isTxSuccess,
     balance |-> balance, tokenDecimals |-> tokenDecimals,
     userFid |-> CtxFid(context)]

----------------------------------------------------------------------------
(* handleBatchPurchase: the callback run 500 ms after the click *)

\* BatchCalls approving the quoted price alone, without the extra fee
BatchCallsNoFee(c) ==
    << [to |-> USDC_ADDRESS, functionName |-> "approve",
        spender |-> TIER_REGISTRY_ADDRESS, amount |-> c.priceData[1]],
       [to |-> TIER_REGISTRY_ADDRESS, functionName |-> "purchaseTier",
        fid |-> c.fid.n, tier |-> TierId, forDays |-> ForDays],
       [to |-> USDC_ADDRESS, functionName |-> "transfer",
        recipient |-> EXTRA_FEE_RECIPIENT, amount |-> EXTRA_FEE] >>

\* the three calls handed to sendCalls
BatchCalls(c) ==
    LET totalCost == c.priceData[1] + EXTRA_FEE
    IN  << [to |-> USDC_ADDRESS, functionName |-> "approve",
            spender |-> TIER_REGISTRY_ADDRESS, amount |-> totalCost],
           [to |-> TIER_REGISTRY_ADDRESS, functionName |-> "purchaseTier",
            fid |-> c.fid.n, tier |-> TierId, forDays |-> ForDays],
           [to |-> USDC_ADDRESS, functionName |-> "transfer",
            recipient |-> EXTRA_FEE_RECIPIENT, amount |-> EXTRA_FEE] >>

Rejected(message) ==
    [kind |-> "error", error |-> message, calls |-> <<>>, cast |-> NULL]

\* GateFailure without its last check (tier active, token is USDC)
GateFailureNoTierCheck(c) ==
    IF ~c.isConnected THEN 1
    ELSE IF c.chain # Some(BaseId) THEN 2
    ELSE IF c.paymentToken = NULL \/ FalsyBig(c.priceData) THEN 3
    ELSE IF FalsyNum(c.fid) \/ IsNaNNumber(c.fid) THEN 4
    ELSE 0

\* position of the first failing check of the gate, 0 when all pass
GateFailure(c) ==
    IF ~c.isConnected THEN 1
    ELSE IF c.chain # Some(BaseId) THEN 2
    ELSE IF c.paymentToken = NULL \/ FalsyBig(c.priceData) THEN 3
    ELSE IF FalsyNum(c.fid) \/ IsNaNNumber(c.fid) THEN 4
    ELSE IF \/ c.tierInfoData = None
            \/ toLowerCase(c.tierInfoData[1].paymentToken)
                 # toLowerCase(USDC_ADDRESS)
            \/ ~c.tierInfoData[1].isActive THEN 5
    ELSE 0

\* GateMessage with the messages of the first two checks exchanged
GateMessageSwapped(i) ==
    IF i = 1 THEN "Please switch to the Base network."
    ELSE IF i = 2 THEN "Please connect your wallet."
    ELSE IF i = 3 THEN "Payment token or price not available."
    ELSE IF i = 4 THEN "No valid Farcaster ID found."
    ELSE "Invalid tier or payment token."

GateMessage(i) ==
    IF i = 1 THEN "Please connect your wallet."
    ELSE IF i = 2 THEN "Please switch to the Base network."
    ELSE IF i = 3 THEN "Payment token or price not available."
    ELSE IF i = 4 THEN "No valid Farcaster ID found."
    ELSE "Invalid tier or payment token."

\* userBalance < Number(formatUnits(priceData + EXTRA_FEE, tokenDecimals))
InsufficientBalance(c) ==
    UnitsLess(UserBalance(c.balance), BalanceDecimals,
              c.priceData[1] + EXTRA_FEE, c.tokenDecimals)

ShareText(c) ==
    IF StrictNeq(c.userFid, c.fid)
      THEN "I Gifted Farcaster Pro to @${profile?.username} for 30 days, with this miniapp by @cashlessman.eth"
    ELSE "I Subscribed to Farcaster Pro for 30 days, with this miniapp by @cashlessman.eth"

\* what the callback does with the values of its closure
TimeoutCallback(c) ==
    IF GateFailure(c) # 0 THEN Rejected(GateMessage(GateFailure(c)))
    ELSE IF c.isTxSuccess
      THEN [kind |-> "share", error |-> NULL, calls |-> <<>>,
            cast |-> ShareText(c)]
    ELSE IF InsufficientBalance(c)
      THEN [kind |-> "toast", error |-> NULL, calls |-> <<>>, cast |-> NULL]
    ELSE IF BigIntThrows(c.fid)
      THEN [kind |-> "throw",
            error |-> "Failed to initiate batch purchase: RangeError",
            calls |-> <<>>, cast |-> NULL]
    ELSE IF EncodeUintThrows(c.fid.n)
      THEN [kind |-> "throw",
            error |-> "Failed to initiate batch purchase: IntegerOutOfRangeError",
            calls |-> <<>>, cast |-> NULL]
    ELSE [kind |-> "send", error |-> NULL, calls |-> BatchCalls(c),
          cast |-> NULL]

----------------------------------------------------------------------------
(* Subscription status line: getTimeUntil *)

\* A Date is a local civil time [y, mo, d, ms]: mo in 0 .. 11, ms the
\* milliseconds since midnight, in a zone without clock shifts (UTC).  An
\* instant is [day, ms]: whole days since 1970-01-01 and milliseconds since
\* midnight, which keeps every number within 32 bits.

MsPerDay == 86400000
MsPerHour == 3600000
MsPerMinute == 60000
SecondsPerDay == 86400

IsLeap(y) == (y % 4 = 0 /\ y % 100 # 0) \/ y % 400 = 0

DaysInMonth(y, mo) ==
    IF mo = 1 THEN (IF IsLeap(y) THEN 29 ELSE 28)
    ELSE IF mo \in {3, 5, 8, 10} THEN 30
    ELSE 31

LeapsBefore(y) == (y - 1) \div 4 - (y - 1) \div 100 + (y - 1) \div 400

RECURSIVE DaysBeforeMonth(_, _)
DaysBeforeMonth(y, mo) ==
    IF mo = 0 THEN 0
    ELSE DaysBeforeMonth(y, mo - 1) + DaysInMonth(y, mo - 1)

\* days from 1970-01-01 to the date (y, mo, d); a month above 11 or a day
\* beyond the end of the month runs over, as in the Date constructor
DayNumber(y, mo, d) ==
    LET yy == y + mo \div 12
        mm == mo % 12
    IN  365 * (yy - 1970) + LeapsBefore(yy) - LeapsBefore(1970)
          + DaysBeforeMonth(yy, mm) + d - 1

\* the Date with the given fields, run over into the next month or year
RECURSIVE MakeDate(_, _, _, _)
MakeDate(y, mo, d, ms) ==
    IF mo > 11 THEN MakeDate(y + 1, mo - 12, d, ms)
    ELSE IF d > DaysInMonth(y, mo)
      THEN MakeDate(y, mo + 1, d - DaysInMonth(y, mo), ms)
    ELSE [y |-> y, mo |-> mo, d |-> d, ms |-> ms]

\* Date.prototype.getTime, as an instant
Instant(date) ==
    [day |-> DayNumber(date.y, date.mo, date.d), ms |-> date.ms]

\* new Date(timestamp * 1000), as an instant
InstantOfSeconds(timestamp) ==
    [day |-> timestamp \div SecondsPerDay,
     ms |-> (timestamp % SecondsPerDay) * 1000]

\* a <= b on instants
NotAfter(a, b) == a.day < b.day \/ (a.day = b.day /\ a.ms <= b.ms)

\* CountYears taking a year to be 365 days
RECURSIVE CountYearsBy365(_, _, _)
CountYearsBy365(temp, future, years) ==
    IF NotAfter([day |-> DayNumber(temp.y, temp.mo, temp.d + 365), ms |-> 0],
                future)
      THEN CountYearsBy365(MakeDate(temp.y, temp.mo, temp.d + 365, temp.ms),
                           future, years + 1)
    ELSE [temp |-> temp, n |-> years]

\* the loop that counts years: while midnight of the same date one year on
\* is not after future, temp.setFullYear(+1)
RECURSIVE CountYears(_, _, _)
CountYears(temp, future, years) ==
    IF NotAfter([day |-> DayNumber(temp.y + 1, temp.mo, temp.d), ms |-> 0],
                future)
      THEN CountYears(MakeDate(temp.y + 1, temp.mo, temp.d, temp.ms),
                      future, years + 1)
    ELSE [temp |-> temp, n |-> years]

\* the loop that counts months: while midnight of the same date one month on
\* is not after future, temp.setMonth(+1)
RECURSIVE CountMonths(_, _, _)
CountMonths(temp, future, months) ==
    IF NotAfter([day |-> DayNumber(temp.y, temp.mo + 1, temp.d), ms |-> 0],
                future)
      THEN CountMonths(MakeDate(temp.y, temp.mo + 1, temp.d, temp.ms),
                       future, months + 1)
    ELSE [temp |-> temp, n |-> months]

\* the counters of getTimeUntil for a Date now and a timestamp in seconds
TimeCounts(date, timestamp) ==
    LET future == InstantOfSeconds(timestamp)
        yr == CountYears(date, future, 0)
        mn == CountMonths(yr.temp, future, 0)
        temp == Instant(mn.temp)
        dDay == future.day - temp.day
        dMs == future.ms - temp.ms
        \* Math.floor(diffTime / MsPerDay) and what is left of diffTime
        days == IF dMs < 0 THEN dDay - 1 ELSE dDay
        rest == IF dMs < 0 THEN dMs + MsPerDay ELSE dMs
    IN  [years |-> yr.n, months |-> mn.n, days |-> days,
         hours |-> rest \div MsPerHour,
         minutes |-> (rest % MsPerHour) \div MsPerMinute,
         seconds |-> (rest % MsPerMinute) \div 1000,
         temp |-> mn.temp]

\* `${n} unit${n > 1 ? "s" : ""}`
Part(n, unit) == ToString(n) \o " " \o unit \o (IF n > 1 THEN "s" ELSE "")

\* parts.push(...) if n > 0
Push(parts, n, unit) == IF n > 0 THEN Append(parts, Part(n, unit)) ELSE parts

\* parts.join(", ")
RECURSIVE Join(_)
Join(parts) ==
    IF Len(parts) = 1 THEN parts[1]
    ELSE parts[1] \o ", " \o Join(Tail(parts))

\* getTimeUntil after its early return: the counters, the parts, the text
ExpiresText(date, timestamp) ==
    LET c == TimeCounts(date, timestamp)
        big == Push(Push(Push(<<>>, c.years, "year"), c.months, "month"),
                    c.days, "day")
        parts == IF c.years = 0 /\ c.months = 0 /\ c.days = 0
                   THEN Push(Push(Push(big, c.hours, "hour"),
                                  c.minutes, "minute"),
                             c.seconds, "second")
                 ELSE big
    IN  IF Len(parts) > 0 THEN "Expires in " \o Join(parts)
        ELSE "No active subscription"

\* getTimeUntil answering a past timestamp with another text
getTimeUntilExpired(date, timestamp) ==
    IF NotAfter(InstantOfSeconds(timestamp), Instant(date))
      THEN "Expired"
    ELSE ExpiresText(date, timestamp)

getTimeUntil(date, timestamp) ==
    IF NotAfter(InstantOfSeconds(timestamp), Instant(date))
      THEN "No active subscription"
    ELSE ExpiresText(date, timestamp)

\* the status line: data?.expires_at == null ? ... : getTimeUntil(...)
StatusLine(date, d) ==
    IF d = None THEN "Loading subscription details"
    ELSE getTimeUntil(date, d[1])

\* clock readings of the renders, in ascending order
StatusNows ==
    << [y |-> 2024, mo |-> 0, d |-> 15, ms |-> 0],
       [y |-> 2024, mo |-> 0, d |-> 15, ms |-> 500],
       [y |-> 2024, mo |-> 0, d |-> 15, ms |-> 43200000],
       [y |-> 2024, mo |-> 0, d |-> 31, ms |-> 0],
       [y |-> 2024, mo |-> 1, d |-> 29, ms |-> 0],
       [y |-> 2024, mo |-> 11, d |-> 31, ms |-> 86399000] >>

\* expires_at values the status service can answer with
ExpiryDates ==
    { <<2024, 0, 14>>, <<2024, 0, 15>>, <<2024, 0, 16>>, <<2024, 1, 15>>,
      <<2024, 1, 29>>, <<2024, 2, 1>>, <<2024, 2, 3>>, <<2025, 0, 1>>,
      <<2025, 0, 15>>, <<2025, 1, 28>>, <<2025, 2, 1>>, <<2025, 2, 20>>,
      <<2026, 0, 15>> }
ExpirySeconds == {0, 1, 3, 21600, 43200, 86399}
Timestamps ==
    { DayNumber(x[1], x[2], x[3]) * SecondsPerDay + s :
        x \in ExpiryDates, s \in ExpirySeconds }

\* the status line before the first answer of proStatus
NoStatus ==
    /\ data = None
    /\ now = 1
    /\ timeLeft = "Loading subscription details"

----------------------------------------------------------------------------
(* Initial state: the component after its first render and mount effects *)

Mounted(castFids) ==
    /\ castFid \in castFids
    /\ context = None
    /\ isConnected = FALSE /\ chain = None /\ chainId = BaseId
    /\ tierInfoData = None /\ tierInfoError = None
    /\ decimalsData = None /\ decimalsError = None
    /\ priceData = None /\ priceError = None
    /\ balance = None
    /\ txStatus = "idle" /\ sendCallsError = None /\ sentCalls = <<>>
    /\ searchFid = None
    /\ NoStatus
    /\ paymentToken = NULL /\ tokenDecimals = DefaultDecimals
    /\ totalPrice = None
    /\ error = NULL /\ isClicked = FALSE
    /\ fid = (IF castFid # NULL THEN NumberOfString(castFid)
              ELSE FidUndefined)
    /\ loading = TRUE
    /\ profileFetch = ~FalsyNum(fid)
    /\ showToast = FALSE /\ toastMessage = NULL
    /\ errorMessagesSent = {} /\ sentCount = <<>> /\ failedSends = {}
    /\ timers = <<>>
    /\ out = Quiet

\* the identities a session with query parameter cf can show once the context
\* is loaded: the parameter or the user's own identity, or a search result
\* when the purchase view (which needs a fetched profile) was ever shown
SessionFids(cf) ==
    LET first == IF cf # NULL THEN NumberOfString(cf) ELSE UserFid
    IN  {first} \cup (IF FalsyNum(first) THEN {} ELSE SearchFids)

\* the component with its context loaded, in the render that follows the
\* given wallet state, read results and identity; no purchase attempted yet
Rendered(cf, conn, ch, tiD, dD, pD, bal, f) ==
    LET blank == [tierInfoData |-> tiD, tierInfoError |-> None,
                  decimalsData |-> None, decimalsError |-> None,
                  priceData |-> pD, priceError |-> None,
                  paymentToken |-> NULL, tokenDecimals |-> DefaultDecimals,
                  totalPrice |-> None, error |-> NULL]
        r1 == PriceEffect(blank)
        r == IF r1.paymentToken = NULL THEN r1
             ELSE PriceEffect([r1 EXCEPT !.decimalsData = dD])
        rl == RelayEffect({}, <<>>, None, None, None, None, r.error)
        first == IF cf # NULL THEN NumberOfString(cf) ELSE UserFid
    IN  /\ castFid = cf
        /\ context = Some([fid |-> UserFid])
        /\ isConnected = conn /\ chain = ch
        /\ chainId = (IF ch = None THEN BaseId ELSE ch[1])
        /\ tierInfoData = r.tierInfoData /\ tierInfoError = None
        /\ decimalsData = r.decimalsData /\ decimalsError = None
        /\ priceData = r.priceData /\ priceError = None
        /\ balance = bal
        /\ txStatus = "idle" /\ sendCallsError = None /\ sentCalls = <<>>
        /\ searchFid = (IF f = first THEN None ELSE Some(f))
        /\ NoStatus
        /\ paymentToken = r.paymentToken
        /\ tokenDecimals = r.tokenDecimals
        /\ totalPrice = r.totalPrice
        /\ error = r.error /\ isClicked = FALSE
        /\ fid = f
        /\ loading = FalsyNum(first)
        /\ profileFetch = FALSE
        /\ showToast = FALSE /\ toastMessage = NULL
        /\ errorMessagesSent = rl.sent /\ sentCount = rl.count
        /\ failedSends = {}
        /\ timers = <<>>
        /\ out = Quiet

----------------------------------------------------------------------------
(* Effects shared by the actions *)

\* the relay effect on the values after a step; it leaves its messages in out
Relayed(tiE, dE, pE, scE, err, emitted) ==
    LET rl == RelayEffect(errorMessagesSent, sentCount, tiE, dE, pE, scE, err)
    IN  /\ errorMessagesSent' = rl.sent
        /\ sentCount' = rl.count
        /\ UNCHANGED failedSends
        /\ out' = [emitted EXCEPT !.dc = @ \o rl.dc]

\* setFid(f), then the effect on fid: proStatus and fetchProfile
SetFid(f) ==
    /\ fid' = f
    /\ IF f # fid /\ ~FalsyNum(f)
         THEN loading' = TRUE /\ profileFetch' = TRUE
         ELSE UNCHANGED <<loading, profileFetch>>

\* new results of the contract reads, then the price effect and the relay
ReadsChange(tiD, tiE, dD, dE, pD, pE) ==
    LET r == PriceEffect(
                [tierInfoData |-> tiD, tierInfoError |-> tiE,
                 decimalsData |-> dD, decimalsError |-> dE,
                 priceData |-> pD, priceError |-> pE,
                 paymentToken |-> paymentToken,
                 tokenDecimals |-> tokenDecimals,
                 totalPrice |-> totalPrice, error |-> error])
    IN  /\ tierInfoData' = r.tierInfoData /\ tierInfoError' = r.tierInfoError
        /\ decimalsData' = r.decimalsData /\ decimalsError' = r.decimalsError
        /\ priceData' = r.priceData /\ priceError' = r.priceError
        /\ paymentToken' = r.paymentToken
        /\ tokenDecimals' = r.tokenDecimals
        /\ totalPrice' = r.totalPrice
        /\ error' = r.error
        /\ Relayed(r.tierInfoError, r.decimalsError, r.priceError,
                   sendCallsError, r.error, Quiet)
        /\ UNCHANGED <<castFid, searchFid, status,
                       context, wallet, balance, tx, isClicked, fid,
                       loading, profileFetch, toast, timers>>

\* SendFails removing the key of the rejected send from the set of sent keys
SendFailsForgets(key) ==
    /\ key \in DOMAIN sentCount
    /\ key \notin failedSends
    /\ failedSends' = failedSends \cup {key}
    /\ errorMessagesSent' = errorMessagesSent \ {key}
    /\ out' = Quiet
    /\ UNCHANGED <<castFid, searchFid, status, context, wallet, reads,
                   balance, tx, derived, error, isClicked, fid, loading,
                   profileFetch, toast, sentCount, timers>>

\* the sendMessage call made for a key is rejected: the catch of
\* sendErrorMessage logs it
SendFails(key) ==
    /\ key \in DOMAIN sentCount
    /\ key \notin failedSends
    /\ failedSends' = failedSends \cup {key}
    /\ out' = Quiet
    /\ UNCHANGED <<castFid, searchFid, status, context, wallet, reads,
                   balance, tx, derived, error, isClicked, fid, loading,
                   profileFetch, toast, errorMessagesSent, sentCount, timers>>

----------------------------------------------------------------------------
(* Session context and wallet *)

\* ResolveFid looking at the session context before the query parameter
ResolveFidContextFirst(cf, ctx, cur) ==
    IF ~FalsyNum(CtxFid(ctx)) THEN CtxFid(ctx)
    ELSE IF cf # NULL THEN NumberOfString(cf)
    ELSE cur

\* the identity the effect on [context, castFid] leaves in fid
ResolveFid(cf, ctx, cur) ==
    IF cf # NULL THEN NumberOfString(cf)
    ELSE IF ~FalsyNum(CtxFid(ctx)) THEN CtxFid(ctx)
    ELSE cur

\* sdk.context resolves; the identity effect and the relay effect run again
ContextLoaded ==
    /\ context = None
    /\ context' = Some([fid |-> UserFid])
    /\ SetFid(ResolveFid(castFid, context', fid))
    /\ Relayed(tierInfoError, decimalsError, priceError, sendCallsError,
               error, Quiet)
    /\ UNCHANGED <<castFid, searchFid, status,
                   wallet, reads, balance, tx, derived, error,
                   isClicked, toast, timers>>

\* the query string gains a castFid parameter; the identity effect and the
\* relay effect run again
CastFidAvailable(cf) ==
    /\ castFid = NULL
    /\ castFid' = cf
    /\ SetFid(ResolveFid(cf, context, fid))
    /\ Relayed(tierInfoError, decimalsError, priceError, sendCallsError,
               error, Quiet)
    /\ UNCHANGED <<searchFid, status, context, wallet, reads, balance, tx,
                   derived, error, isClicked, toast, timers>>

Connect(c) ==
    /\ ~isConnected
    /\ isConnected' = TRUE /\ chain' = Some(c) /\ chainId' = c
    /\ out' = Quiet
    /\ UNCHANGED <<castFid, searchFid, status,
                   context, reads, balance, tx, derived, error,
                   isClicked, fid, loading, profileFetch, toast, relay,
                   timers>>

Disconnect ==
    /\ isConnected
    /\ isConnected' = FALSE /\ chain' = None /\ chainId' = chainId
    /\ balance' = None
    /\ out' = Quiet
    /\ UNCHANGED <<castFid, searchFid, status,
                   context, reads, tx, derived, error, isClicked,
                   fid, loading, profileFetch, toast, relay, timers>>

SwitchChain(c) ==
    /\ isConnected
    /\ chain # Some(c)
    /\ chain' = Some(c) /\ chainId' = c
    /\ out' = Quiet
    /\ UNCHANGED <<castFid, searchFid, status,
                   context, isConnected, reads, balance, tx, derived,
                   error, isClicked, fid, loading, profileFetch, toast, relay,
                   timers>>

BalanceRead(v) ==
    /\ isConnected
    /\ balance' = Some(v)
    /\ out' = Quiet
    /\ UNCHANGED <<castFid, searchFid, status,
                   context, wallet, reads, tx, derived, error,
                   isClicked, fid, loading, profileFetch, toast, relay,
                   timers>>

----------------------------------------------------------------------------
(* Contract reads *)

TierInfoRead(v) ==
    ReadsChange(Some(v), None, decimalsData, decimalsError,
                priceData, priceError)

TierInfoFail(m) ==
    ReadsChange(tierInfoData, Some(m), decimalsData, decimalsError,
                priceData, priceError)

DecimalsRead(v) ==
    /\ paymentToken # NULL
    /\ ReadsChange(tierInfoData, tierInfoError, Some(v), None,
                   priceData, priceError)

DecimalsFail(m) ==
    /\ paymentToken # NULL
    /\ ReadsChange(tierInfoData, tierInfoError, decimalsData, Some(m),
                   priceData, priceError)

PriceRead(v) ==
    ReadsChange(tierInfoData, tierInfoError, decimalsData, decimalsError,
                Some(v), None)

PriceFail(m) ==
    ReadsChange(tierInfoData, tierInfoError, decimalsData, decimalsError,
                priceData, Some(m))

----------------------------------------------------------------------------
(* Purchase *)

\* handleBatchPurchase up to its setTimeout: the callback is queued with the
\* values of the render the handler belongs to
handleBatchPurchase ==
    /\ Len(timers) < MaxTimers
    /\ isClicked' = TRUE
    /\ timers' = Append(timers, Closure)
    /\ out' = Quiet
    /\ UNCHANGED <<castFid, searchFid, status,
                   context, wallet, reads, balance, tx, derived,
                   error, fid, loading, profileFetch, toast, relay>>

\* a click on the purchase button
Click ==
    /\ PurchaseEnabled
    /\ handleBatchPurchase

\* the handler called on its own, whatever the button shows, with no earlier
\* callback still queued
Invoke ==
    /\ timers = <<>>
    /\ handleBatchPurchase

\* the oldest queued callback runs (equal delays fire in click order)
TimerFire ==
    /\ timers # <<>>
    /\ LET c == Head(timers)
           r == TimeoutCallback(c)
           scE == IF r.kind = "send" THEN None ELSE sendCallsError
           err == IF r.kind \in {"error", "throw"} THEN r.error ELSE error
       IN  /\ timers' = Tail(timers)
           /\ error' = err
           /\ isClicked' = (IF r.kind = "send" THEN isClicked ELSE FALSE)
           /\ IF r.kind = "toast"
                THEN /\ showToast' = TRUE
                     /\ toastMessage' = "Insufficient USDC balance"
                ELSE UNCHANGED toast
           /\ txStatus' = (IF r.kind = "send" THEN "pending" ELSE txStatus)
           /\ sendCallsError' = scE
           /\ sentCalls' = (IF r.kind = "send" THEN r.calls ELSE sentCalls)
           /\ Relayed(tierInfoError, decimalsError, priceError, scE, err,
                      [calls |-> r.calls, dc |-> <<>>, cast |-> r.cast,
                       ran |-> Some(c)])
    /\ UNCHANGED <<castFid, searchFid, status,
                   context, wallet, reads, balance, derived, fid,
                   loading, profileFetch>>

\* SuccessMessages without the effect that notifies the target of a gift
SuccessMessagesNoGift(ctx, f) ==
    IF ~FalsyNum(CtxFid(ctx))
      THEN << [to |-> CtxFid(ctx),
               text |-> IF StrictNeq(CtxFid(ctx), f)
                          THEN "You Gifted Farcaster Pro to @${profile?.username} for 30 days!"
                        ELSE "You Subscribed Farcaster Pro for 30 days!"] >>
    ELSE <<>>

\* the messages of the two effects on isTxSuccess, for the values of the
\* render in which it became true
SuccessMessages(ctx, f) ==
    (IF ~FalsyNum(CtxFid(ctx))
       THEN << [to |-> CtxFid(ctx),
                text |-> IF StrictNeq(CtxFid(ctx), f)
                           THEN "You Gifted Farcaster Pro to @${profile?.username} for 30 days!"
                         ELSE "You Subscribed Farcaster Pro for 30 days!"] >>
       ELSE <<>>)
    \o (IF StrictNeq(CtxFid(ctx), f)
          THEN << [to |-> ToNumber(f),
                   text |-> "@${context?.user.username} Gifted you Farcaster Pro for 30 days!"] >>
          ELSE <<>>)

\* the wallet accepts the pending call request
TxSucceed ==
    /\ isTxPending
    /\ txStatus' = "success"
    /\ out' = [Quiet EXCEPT !.dc = SuccessMessages(context, fid)]
    /\ UNCHANGED <<castFid, searchFid, status, context, wallet, reads,
                   balance, sendCallsError, sentCalls, derived, error,
                   isClicked, fid, loading, profileFetch,
                   toast, relay, timers>>

\* the wallet or the chain rejects the pending call request
TxFail(m) ==
    /\ isTxPending
    /\ txStatus' = "error"
    /\ sendCallsError' = Some(m)
    /\ UNCHANGED sentCalls
    /\ Relayed(tierInfoError, decimalsError, priceError, Some(m), error,
               Quiet)
    /\ UNCHANGED <<castFid, searchFid, status,
                   context, wallet, reads, balance, derived, error,
                   isClicked, fid, loading, profileFetch, toast, timers>>

----------------------------------------------------------------------------
(* Identity search, profile and toast *)

\* usernameToFid: the lookup answers with response.data.fid
Search(f) ==
    /\ MainView
    /\ searchFid' = Some(f)
    /\ SetFid(f)
    /\ out' = Quiet
    /\ UNCHANGED <<castFid, status,
                   context, wallet, reads, balance, tx, derived,
                   error, isClicked, toast, relay, timers>>

\* SearchFail storing its message in the error state as well
SearchFailSetsError ==
    /\ MainView
    /\ showToast' = TRUE
    /\ toastMessage' = "Please enter a valid username"
    /\ error' = "Please enter a valid username"
    /\ Relayed(tierInfoError, decimalsError, priceError, sendCallsError,
               error', Quiet)
    /\ UNCHANGED <<castFid, searchFid, status, context, wallet, reads,
                   balance, tx, derived, isClicked, fid, loading,
                   profileFetch, timers>>

\* usernameToFid: the lookup fails
SearchFail ==
    /\ MainView
    /\ showToast' = TRUE
    /\ toastMessage' = "Please enter a valid username"
    /\ out' = Quiet
    /\ UNCHANGED <<castFid, searchFid, status,
                   context, wallet, reads, balance, tx, derived,
                   error, isClicked, fid, loading, profileFetch, relay,
                   timers>>

\* fetchProfile settles
ProfileFetched ==
    /\ profileFetch
    /\ loading' = FALSE /\ profileFetch' = FALSE
    /\ out' = Quiet
    /\ UNCHANGED <<castFid, searchFid, status,
                   context, wallet, reads, balance, tx, derived,
                   error, isClicked, fid, toast, relay, timers>>

\* the toast's onClose
ToastClose ==
    /\ showToast
    /\ showToast' = FALSE
    /\ out' = Quiet
    /\ UNCHANGED <<castFid, searchFid, status,
                   context, wallet, reads, balance, tx, derived,
                   error, isClicked, fid, loading, profileFetch,
                   toastMessage, relay, timers>>

\* proStatus answers with expires_at = t: setData, and the status line is
\* rendered at clock reading n
StatusLoaded(t, n) ==
    /\ ~FalsyNum(fid)
    /\ n >= now
    /\ data' = Some(t)
    /\ now' = n
    /\ timeLeft' = StatusLine(StatusNows[n], Some(t))
    /\ out' = Quiet
    /\ UNCHANGED <<castFid, searchFid, context, wallet, reads, balance, tx,
                   derived, error, isClicked, fid, loading, profileFetch,
                   toast, relay, timers>>

\* a later render of the status line, at clock reading n
Rerender(n) ==
    /\ n > now
    /\ now' = n
    /\ timeLeft' = StatusLine(StatusNows[n], data)
    /\ out' = Quiet
    /\ UNCHANGED <<castFid, searchFid, data, context, wallet, reads, balance,
                   tx, derived, error, isClicked, fid, loading, profileFetch,
                   toast, relay, timers>>

----------------------------------------------------------------------------
(* Specifications *)

\* The whole controller from its mount.
Init == Mounted(CastFids)

Next ==
    \/ ContextLoaded
    \/ \E c \in ChainIds : Connect(c)
    \/ Disconnect
    \/ \E c \in ChainIds : SwitchChain(c)
    \/ \E v \in Balances : BalanceRead(v)
    \/ \E v \in TierInfos : TierInfoRead(v)
    \/ \E v \in DecimalsValues : DecimalsRead(v)
    \/ \E v \in Prices : PriceRead(v)
    \/ \E m \in ErrMsgs : TierInfoFail(m)
    \/ \E m \in ErrMsgs : DecimalsFail(m)
    \/ \E m \in ErrMsgs : PriceFail(m)
    \/ Click
    \/ TimerFire
    \/ TxSucceed
    \/ \E m \in ErrMsgs : TxFail(m)
    \/ \E f \in SearchFids : Search(f)
    \/ SearchFail
    \/ ProfileFetched
    \/ ToastClose

SpecAll == Init /\ [][Next]_vars

\* Purchase flow through the button, from a loaded purchase view: wallet on
\* Base, active USDC tier, price and a sufficient balance loaded.
ActiveUsdcTier == [paymentToken |-> USDC_ADDRESS, isActive |-> TRUE]

InitReady ==
    \E cf \in {NULL, "2", "1.5", "-1"}, bal \in Balances, p \in Prices :
        Rendered(cf, TRUE, Some(BaseId), Some(ActiveUsdcTier),
                 Some(DefaultDecimals), Some(p), Some(bal),
                 IF cf # NULL THEN NumberOfString(cf) ELSE UserFid)

NextFlow ==
    \/ Click
    \/ TimerFire
    \/ TxSucceed
    \/ \E m \in ErrMsgs : TxFail(m)
    \/ \E f \in {FidNum(2), FidUndefined} : Search(f)
    \/ SearchFail
    \/ ProfileFetched
    \/ ToastClose

Spec == InitReady /\ [][NextFlow]_vars

\* The handler on every render state: the wallet, the reads, the balance and
\* the identity are drawn; the handler is called, its callback runs, and a
\* submitted batch may succeed.
InitRender ==
    \E cf \in CastFids, tiD \in {None} \cup {Some(v) : v \in TierInfos},
       dD \in {Some(v) : v \in DecimalsValues},
       pD \in {None} \cup {Some(v) : v \in Prices},
       w \in {<<FALSE, None>>, <<TRUE, Some(BaseId)>>, <<TRUE, Some(1)>>},
       bal \in {None} \cup {Some(v) : v \in Balances} :
      \E f \in SessionFids(cf) :
        /\ ~w[1] => bal = None
        /\ Rendered(cf, w[1], w[2], tiD, dD, pD, bal, f)

NextGate ==
    \/ Invoke
    \/ TimerFire
    \/ TxSucceed

SpecGate == InitRender /\ [][NextGate]_vars

\* Loading: from the mount to the purchase view.
NextLoad ==
    \/ ContextLoaded
    \/ \E c \in ChainIds : Connect(c)
    \/ Disconnect
    \/ \E c \in ChainIds : SwitchChain(c)
    \/ \E v \in Balances : BalanceRead(v)
    \/ \E v \in TierInfos : TierInfoRead(v)
    \/ \E v \in DecimalsValues : DecimalsRead(v)
    \/ \E v \in Prices : PriceRead(v)
    \/ ProfileFetched

InitLoad == Mounted({NULL, "2"})

SpecLoad == InitLoad /\ [][NextLoad]_vars

\* Error relay: read failures, gate errors and failed batches on a loaded
\* purchase view of the user's own identity.
InitRelay ==
    \E p \in Prices, bal \in Balances :
        Rendered(NULL, TRUE, Some(BaseId), Some(ActiveUsdcTier),
                 Some(DefaultDecimals), Some(p), Some(bal), UserFid)

NextRelay ==
    \/ \E m \in ErrMsgs : TierInfoFail(m)
    \/ \E m \in ErrMsgs : DecimalsFail(m)
    \/ \E m \in ErrMsgs : PriceFail(m)
    \/ \E v \in {ActiveUsdcTier,
                 [paymentToken |-> USDC_ADDRESS, isActive |-> FALSE]} :
          TierInfoRead(v)
    \/ \E v \in Prices : PriceRead(v)
    \/ Click
    \/ TimerFire
    \/ \E m \in ErrMsgs : TxFail(m)

SpecRelay == InitRelay /\ [][NextRelay]_vars

\* Identity: the session context and the query parameter arrive in either
\* order while the wallet connects and the profile loads.
InitIdentity == Mounted({NULL})

NextIdentity ==
    \/ ContextLoaded
    \/ \E cf \in CastFids \ {NULL} : CastFidAvailable(cf)
    \/ \E c \in ChainIds : Connect(c)
    \/ Disconnect
    \/ \E v \in Balances : BalanceRead(v)
    \/ ProfileFetched

SpecIdentity == InitIdentity /\ [][NextIdentity]_vars

\* Race: wallet, chain, tier-info and search events between a click and its
\* delayed callback, from a loaded purchase view of the user's own identity.
InitRace ==
    \E p \in Prices :
        Rendered(NULL, TRUE, Some(BaseId), Some(ActiveUsdcTier),
                 Some(DefaultDecimals), Some(p), Some(5000000), UserFid)

NextRace ==
    \/ Click
    \/ TimerFire
    \/ Disconnect
    \/ Connect(BaseId)
    \/ \E c \in ChainIds : SwitchChain(c)
    \/ TierInfoRead([paymentToken |-> USDC_ADDRESS, isActive |-> FALSE])
    \/ Search(FidNum(2))
    \/ ProfileFetched
    \/ TxSucceed
    \/ \E m \in ErrMsgs : TxFail(m)

SpecRace == InitRace /\ [][NextRace]_vars

\* Error state: read failures and their successful refetches, gate errors and
\* their correction by a search, and purchases that succeed or fail, on a
\* loaded purchase view of the user's own identity.
NextError ==
    \/ \E m \in ErrMsgs : TierInfoFail(m)
    \/ \E m \in ErrMsgs : PriceFail(m)
    \/ TierInfoRead(ActiveUsdcTier)
    \/ \E v \in Prices : PriceRead(v)
    \/ \E f \in {FidNum(2), FidUndefined} : Search(f)
    \/ ProfileFetched
    \/ Click
    \/ TimerFire
    \/ TxSucceed
    \/ \E m \in ErrMsgs : TxFail(m)

SpecError == InitRelay /\ [][NextError]_vars

\* Operator sends: read failures, their refetches and repeated failures,
\* while sends to the operator are rejected.
RelayKeys ==
    { ErrorKey(p[1], p[2]) :
        p \in { <<"tierInfo", "Failed to fetch tier info: rpc">>,
                <<"price", "Failed to fetch price: rpc">>,
                <<"general", "Failed to fetch tier info: rpc">>,
                <<"general", "Failed to fetch price: rpc">>,
                <<"general", "Tier 1 is not active.">> } }

NextSend ==
    \/ \E m \in ErrMsgs : TierInfoFail(m)
    \/ \E m \in ErrMsgs : PriceFail(m)
    \/ \E v \in {ActiveUsdcTier,
                 [paymentToken |-> USDC_ADDRESS, isActive |-> FALSE]} :
          TierInfoRead(v)
    \/ \E v \in Prices : PriceRead(v)
    \/ \E key \in RelayKeys : SendFails(key)

SpecSend == InitRelay /\ [][NextSend]_vars

\* Contract reads: the three reads resolve, fail and are refetched in any
\* order; decimals() may answer any uint8, zero included.
InitReads == Mounted({NULL})

DecimalsAnswers == DecimalsValues \cup {0}

NextReads ==
    \/ \E v \in TierInfos : TierInfoRead(v)
    \/ \E v \in DecimalsAnswers : DecimalsRead(v)
    \/ \E v \in Prices : PriceRead(v)
    \/ \E m \in ErrMsgs : TierInfoFail(m)
    \/ \E m \in ErrMsgs : DecimalsFail(m)
    \/ \E m \in ErrMsgs : PriceFail(m)

SpecReads == InitReads /\ [][NextReads]_vars

\* Status line: the answers of proStatus and the renders at later clock
\* readings, for a session opened on identity 2.
InitTime == Mounted({"2"})

NextTime ==
    \/ \E t \in Timestamps, n \in 1 .. Len(StatusNows) : StatusLoaded(t, n)
    \/ \E n \in 1 .. Len(StatusNows) : Rerender(n)

SpecTime == InitTime /\ [][NextTime]_vars

----------------------------------------------------------------------------
(* Properties *)

\* a queued callback of handleBatchPurchase ran in the last step; its closure
\* holds the controller state of the purchase attempt
Ran == out.ran # <<>>
Attempt == out.ran[1]

ValidPositiveInteger(f) == f.k = "num" /\ f.d = 1 /\ f.n > 0
NoIdentity(f) == f.k \in {"undefined", "NaN"} \/ (f.k = "num" /\ f.n = 0)
IsUsdc(a) == a \in {USDC_ADDRESS, UsdcLower}

WalletChainOk(c) == c.isConnected /\ c.chain = <<8453>>
TokenPriceOk(c) == c.paymentToken # NULL /\ c.priceData # <<>>
TierOk(c) ==
    /\ c.tierInfoData # <<>>
    /\ c.tierInfoData[1].isActive
    /\ IsUsdc(c.tierInfoData[1].paymentToken)

\* C1: a purchase attempt made in a state where a gate condition fails
\* (wallet not connected, wrong chain, payment token or price not loaded, no
\* valid target identity, tier inactive or its payment token not the
\* stablecoin) never hands a batch to sendCalls.
C1_GateBlocksSend ==
    (Ran /\ ( \/ ~WalletChainOk(Attempt)
              \/ ~TokenPriceOk(Attempt)
              \/ NoIdentity(Attempt.fid)
              \/ ~TierOk(Attempt) ))
      => out.calls = <<>>

\* C1 witness: an attempt with a mismatched payment token and a loaded price
\* was rejected
C1_Witness ==
    /\ Ran
    /\ WalletChainOk(Attempt) /\ TokenPriceOk(Attempt)
    /\ ValidPositiveInteger(Attempt.fid)
    /\ Attempt.tierInfoData # <<>>
    /\ Attempt.tierInfoData[1].paymentToken = OtherToken
    /\ out.calls = <<>>
    /\ error = "Invalid tier or payment token."

\* C2: the purchase control is enabled only if the wallet is connected, the
\* chain is Base, the payment token is loaded and is the stablecoin, and the
\* price is loaded.
C2_EnabledOnlyIfValid ==
    PurchaseEnabled =>
        /\ isConnected
        /\ chain = <<8453>>
        /\ paymentToken # NULL
        /\ IsUsdc(paymentToken)
        /\ priceData # <<>>

\* C3: every batch handed to sendCalls is exactly approve(registry,
\* price + fee) on the stablecoin, purchaseTier(target, 1, 30) on the
\* registry and transfer(recipient, fee) on the stablecoin, in this order.
C3_BatchShape ==
    out.calls # <<>> =>
        /\ Ran
        /\ Len(out.calls) = 3
        /\ out.calls[1] = [to |-> USDC_ADDRESS, functionName |-> "approve",
                           spender |-> TIER_REGISTRY_ADDRESS,
                           amount |-> Attempt.priceData[1] + 500000]
        /\ Attempt.fid.k = "num" /\ Attempt.fid.d = 1
        /\ out.calls[2] = [to |-> TIER_REGISTRY_ADDRESS,
                           functionName |-> "purchaseTier",
                           fid |-> Attempt.fid.n, tier |-> 1, forDays |-> 30]
        /\ out.calls[3] = [to |-> USDC_ADDRESS, functionName |-> "transfer",
                           recipient |-> EXTRA_FEE_RECIPIENT,
                           amount |-> 500000]

\* C3 witness: a batch for a gift to identity 2 was handed to sendCalls
C3_Witness ==
    /\ out.calls # <<>>
    /\ Attempt.fid = FidNum(2)
    /\ txStatus = "pending"

\* C4: sendCalls is never invoked while a submitted batch is still pending.
C4_OneInFlight == [][out'.calls # <<>> => ~isTxPending]_vars

\* C5: once a batch has succeeded, a callback that runs never calls sendCalls
\* again, and an attempt made after the success composes the share cast.
C5_ShareAfterSuccess ==
    [][(isTxSuccess /\ out'.ran # <<>>) =>
          /\ out'.calls = <<>>
          /\ (out'.ran[1].isTxSuccess => out'.cast # NULL)]_vars

\* C6: an attempt that passes the gate with a balance below price + fee (in
\* smallest units) shows the insufficient-balance toast and sends nothing.
C6_InsufficientBalanceBlocks ==
    (/\ Ran
     /\ WalletChainOk(Attempt) /\ TokenPriceOk(Attempt)
     /\ ~NoIdentity(Attempt.fid) /\ TierOk(Attempt)
     /\ ~Attempt.isTxSuccess
     /\ UserBalance(Attempt.balance) < Attempt.priceData[1] + 500000)
      => /\ showToast
         /\ toastMessage = "Insufficient USDC balance"
         /\ out.calls = <<>>

\* C7: the gate reports the message of its first failing check, in the order
\* wallet, chain, token and price, identity, tier, and resets the clicked
\* flag.
C7_FirstFailingCheck ==
    Ran =>
      /\ ~Attempt.isConnected =>
           error = "Please connect your wallet." /\ ~isClicked
      /\ (Attempt.isConnected /\ Attempt.chain # <<8453>>) =>
           error = "Please switch to the Base network." /\ ~isClicked
      /\ (WalletChainOk(Attempt) /\ ~TokenPriceOk(Attempt)) =>
           error = "Payment token or price not available." /\ ~isClicked
      /\ (WalletChainOk(Attempt) /\ TokenPriceOk(Attempt)
            /\ NoIdentity(Attempt.fid)) =>
           error = "No valid Farcaster ID found." /\ ~isClicked
      /\ (WalletChainOk(Attempt) /\ TokenPriceOk(Attempt)
            /\ ~NoIdentity(Attempt.fid) /\ ~TierOk(Attempt)) =>
           error = "Invalid tier or payment token." /\ ~isClicked

\* C7 witness: a disconnected wallet with nothing loaded was told to connect
C7_Witness ==
    /\ Ran
    /\ ~Attempt.isConnected
    /\ Attempt.priceData = <<>>
    /\ Attempt.tierInfoData = <<>>
    /\ error = "Please connect your wallet."
    /\ ~isClicked

\* C8: with wallet, chain, token and price in order, a target identity that
\* is not a positive integer is rejected with "No valid Farcaster ID found."
\* and no batch is built.
C8_InvalidIdentityRejected ==
    (Ran /\ WalletChainOk(Attempt) /\ TokenPriceOk(Attempt)
         /\ ~ValidPositiveInteger(Attempt.fid))
      => /\ error = "No valid Farcaster ID found."
         /\ out.calls = <<>>

\* C9: when the batch becomes successful, two notifications are sent if the
\* acting identity differs from the target identity (to the acting identity,
\* then to the target), and one (to the acting identity) if they are equal.
C9_GiftNotifications ==
    [][(~isTxSuccess /\ isTxSuccess') =>
          IF CtxFid(context') # fid'
            THEN /\ Len(out'.dc) = 2
                 /\ out'.dc[1].to = CtxFid(context')
                 /\ out'.dc[2].to = ToNumber(fid')
            ELSE /\ Len(out'.dc) = 1
                 /\ out'.dc[1].to = CtxFid(context')]_vars

\* C9 witness: a gift to identity 2 succeeded and both were notified
C9_Witness ==
    /\ isTxSuccess
    /\ fid = FidNum(2)
    /\ Len(out.dc) = 2
    /\ out.dc[2].to = FidNum(2)

\* C10: every (category, message) error pair the controller holds has been
\* sent to the operator, and no pair was sent more than once.
C10_RelayedExactlyOnce ==
    /\ \A k \in DOMAIN sentCount : sentCount[k] = 1
    /\ tierInfoError # <<>> =>
         ("tierInfo:Failed to fetch tier info: " \o tierInfoError[1])
            \in DOMAIN sentCount
    /\ decimalsError # <<>> =>
         ("decimals:Failed to fetch token decimals: " \o decimalsError[1])
            \in DOMAIN sentCount
    /\ priceError # <<>> =>
         ("price:Failed to fetch price: " \o priceError[1])
            \in DOMAIN sentCount
    /\ sendCallsError # <<>> =>
         ("sendCalls:Batch transaction failed: " \o sendCallsError[1])
            \in DOMAIN sentCount
    /\ error # NULL => ("general:" \o error) \in DOMAIN sentCount

\* C10 witness: pairs of three categories (a read failure, a failed batch, a
\* general error) have each been relayed while the failed read is still
\* reported and the last step sent nothing
C10_Witness ==
    /\ "tierInfo:Failed to fetch tier info: rpc" \in DOMAIN sentCount
    /\ "sendCalls:Batch transaction failed: rpc" \in DOMAIN sentCount
    /\ "general:Failed to fetch price: rpc" \in DOMAIN sentCount
    /\ tierInfoError # <<>>
    /\ out.dc = <<>>
    /\ tierInfoData # <<>> /\ ~tierInfoData[1].isActive

\* C11: when a submitted batch fails, an error banner is shown to the user,
\* and a batch is handed to sendCalls only by the callback of a click, never
\* by the failure itself.
C11_FailureBannerNoRetry ==
    [][/\ (isTxPending /\ txStatus' = "error") => ErrorBannerShown'
       /\ out'.calls # <<>> => (timers # <<>> /\ out'.ran = <<Head(timers)>>)
      ]_vars

\* C12: with no username search performed, the target identity is the number
\* of the castFid query parameter whenever the parameter is present, and
\* otherwise, once the session context is loaded, the session's own identity.
C12_IdentityResolution ==
    searchFid = <<>> =>
      /\ castFid # NULL => fid = NumberOfString(castFid)
      /\ (castFid = NULL /\ context # <<>>) => fid = context[1].fid

\* C12 witness: the context and the parameter have both arrived, and the
\* target is the parameter's identity, not the session's
C12_Witness ==
    /\ castFid = "2"
    /\ context # <<>>
    /\ context[1].fid = FidNum(1)
    /\ fid = FidNum(2)
    /\ searchFid = <<>>

\* C13: after a successful username lookup the target identity is the
\* looked-up identity, and the purchaseTier call of a batch submitted after
\* the lookup names that identity.
C13_SearchOverrides ==
    searchFid # <<>> =>
      /\ fid = searchFid[1]
      /\ out.calls # <<>> =>
           /\ searchFid[1].k = "num"
           /\ out.calls[2].fid = searchFid[1].n

\* C14: a step that shows the 'Please enter a valid username' notification
\* leaves the target identity, the error state and the set of sent error keys
\* unchanged and sends nothing to the operator or anyone else.
C14_FailedLookupFrame ==
    [][(/\ showToast' /\ toastMessage' = "Please enter a valid username"
        /\ (~showToast \/ toastMessage # toastMessage'))
         => /\ fid' = fid
            /\ error' = error
            /\ errorMessagesSent' = errorMessagesSent
            /\ sentCount' = sentCount
            /\ out'.dc = <<>> /\ out'.calls = <<>>]_vars

\* C14 witness: the notification of a failed lookup is shown while an earlier
\* gate error and its sent key are still in place
C14_Witness ==
    /\ showToast /\ toastMessage = "Please enter a valid username"
    /\ error = "No valid Farcaster ID found."
    /\ errorMessagesSent = {"general:No valid Farcaster ID found."}
    /\ out = Quiet

\* the status line shows an expiry strictly after the clock reading of its
\* render
FutureExpiry ==
    /\ data # <<>>
    /\ ~NotAfter(InstantOfSeconds(data[1]), Instant(StatusNows[now]))
ShownCounts == TimeCounts(StatusNows[now], data[1])

\* C15: for an expiry strictly in the future the status line is 'Expires in'
\* followed by at least one unit: the positive ones of years, months, days in
\* this order, and the positive ones of hours, minutes, seconds exactly when
\* years = months = days = 0; it is never 'No active subscription'.
C15_FutureNeverSentinel ==
    FutureExpiry =>
      LET c == ShownCounts
          ymd == Push(Push(Push(<<>>, c.years, "year"), c.months, "month"),
                      c.days, "day")
          hms == Push(Push(Push(<<>>, c.hours, "hour"), c.minutes, "minute"),
                      c.seconds, "second")
          units == IF c.years = 0 /\ c.months = 0 /\ c.days = 0
                     THEN hms ELSE ymd
      IN  /\ timeLeft # "No active subscription"
          /\ units # <<>>
          /\ timeLeft = "Expires in " \o Join(units)

\* C16: for an expiry that is not after the clock reading of the render
\* (expires_at * 1000 <= now) the status line is exactly 'No active
\* subscription'.
C16_PastIsSentinel ==
    (data # <<>> /\ ~FutureExpiry) => timeLeft = "No active subscription"

\* C16 witness: an expiry equal to the clock reading, 2024-01-15T00:00:00Z,
\* is shown as the sentinel
C16_Witness ==
    /\ data = <<1705276800>>
    /\ StatusNows[now] = [y |-> 2024, mo |-> 0, d |-> 15, ms |-> 0]
    /\ timeLeft = "No active subscription"

\* C17: years and months are counted by calendar rollover, not by 365-day or
\* 30-day division: read at 2024-01-15T00:00:00Z, an expiry of
\* 2025-03-20T00:00:00Z is shown as 'Expires in 1 year, 2 months, 5 days',
\* one of 2025-01-15 (366 days on) as 'Expires in 1 year', and one of
\* 2024-02-15 (31 days on) as 'Expires in 1 month'.
C17_CalendarRollover ==
    StatusNows[now] = [y |-> 2024, mo |-> 0, d |-> 15, ms |-> 0] =>
      /\ data = <<1742428800>> =>
           timeLeft = "Expires in 1 year, 2 months, 5 days"
      /\ data = <<1736899200>> => timeLeft = "Expires in 1 year"
      /\ data = <<1707955200>> => timeLeft = "Expires in 1 month"

\* C17 witness: the expiry 2025-03-20T00:00:00Z rendered at
\* 2024-01-15T00:00:00Z
C17_Witness ==
    /\ now = 1
    /\ data = <<DayNumber(2025, 2, 20) * SecondsPerDay>>
    /\ ShownCounts.years = 1 /\ ShownCounts.months = 2
    /\ ShownCounts.days = 5

\* the three reads hold a result and no error
AllReadsResolved ==
    /\ tierInfoData # <<>> /\ tierInfoError = <<>>
    /\ decimalsData # <<>> /\ decimalsError = <<>>
    /\ priceData # <<>> /\ priceError = <<>>

\* C18: whatever the order in which the reads resolved, once all three hold a
\* result the payment token is tierInfo.paymentToken, the token decimals are
\* the fetched decimals and the total price is price + fee formatted with the
\* fetched decimals.
C18_ReadsConverge ==
    AllReadsResolved =>
      /\ paymentToken = tierInfoData[1].paymentToken
      /\ tokenDecimals = decimalsData[1]
      /\ totalPrice = <<priceData[1] + 500000, decimalsData[1]>>

\* C19: at the moment sendCalls is invoked the wallet is connected, the chain
\* is Base, the tier is active with the stablecoin as payment token, no batch
\* has succeeded, and the purchaseTier call names the current target identity.
C19_GateHoldsAtSend ==
    [][out'.calls # <<>> =>
          /\ isConnected
          /\ chain = <<8453>>
          /\ tierInfoData # <<>>
          /\ tierInfoData[1].isActive
          /\ IsUsdc(tierInfoData[1].paymentToken)
          /\ ~isTxSuccess
          /\ fid.k = "num"
          /\ out'.calls[2].fid = fid.n]_vars

\* C20: when a batch succeeds, a gift is detected by comparing the acting
\* identity with the identity named in the purchaseTier call of that batch,
\* and the gift notification goes to that identity.
C20_GiftTargetIsBatchTarget ==
    [][(~isTxSuccess /\ isTxSuccess') =>
          LET target == FidNum(sentCalls'[2].fid)
          IN  IF context'[1].fid # target
                THEN /\ Len(out'.dc) = 2
                     /\ out'.dc[2].to = target
                ELSE Len(out'.dc) = 1]_vars

\* C21: for an expiry in the future the counted years and months never
\* overshoot it: the clock reading advanced by them is not after the expiry,
\* so the count of remaining days is not negative.
C21_NoOvershoot ==
    FutureExpiry =>
      /\ NotAfter(Instant(ShownCounts.temp), InstantOfSeconds(data[1]))
      /\ ShownCounts.days >= 0

\* sends to the operator made for one key, and for one message text under
\* any of the five categories
SentTimes(key) == IF key \in DOMAIN sentCount THEN sentCount[key] ELSE 0
TextSentTimes(text) ==
    SentTimes("tierInfo:" \o text) + SentTimes("decimals:" \o text)
      + SentTimes("price:" \o text) + SentTimes("sendCalls:" \o text)
      + SentTimes("general:" \o text)

\* C22: the message text of a contract read failure (tier info, decimals or
\* price) is delivered to the operator at most once, whichever categories
\* raise it.
C22_OneSendPerText ==
    \A m \in ErrMsgs :
      /\ TextSentTimes("Failed to fetch tier info: " \o m) <= 1
      /\ TextSentTimes("Failed to fetch token decimals: " \o m) <= 1
      /\ TextSentTimes("Failed to fetch price: " \o m) <= 1

\* C23: once the error state holds a message, no step returns it to empty.
C23_ErrorNeverCleared == [][error # NULL => error' # NULL]_vars

\* C23 witness: an error is still held after the failed read was refetched
\* successfully and a purchase succeeded
C23_Witness ==
    /\ error = "Failed to fetch tier info: rpc"
    /\ tierInfoError = <<>> /\ priceError = <<>>
    /\ isTxSuccess
    /\ ErrorBannerShown

\* C24: the key of an error is in the set of sent keys from its send attempt
\* on and is never removed, and no (category, message) pair has a second send
\* attempt, a rejected first attempt included.
C24_KeyKeptNoRetry ==
    [][/\ errorMessagesSent \subseteq errorMessagesSent'
       /\ DOMAIN sentCount' \subseteq errorMessagesSent'
       /\ \A k \in DOMAIN sentCount' : sentCount'[k] <= 1
       /\ \A k \in failedSends :
            k \in DOMAIN sentCount' /\ sentCount'[k] = sentCount[k]]_vars

\* C24 witness: the send for a failed tier-info read was rejected, the read
\* and the price read are reported as failed, and the rejected key still has
\* its one attempt
C24_Witness ==
    /\ "tierInfo:Failed to fetch tier info: rpc" \in failedSends
    /\ tierInfoError # <<>> /\ priceError # <<>>
    /\ sentCount["tierInfo:Failed to fetch tier info: rpc"] = 1
    /\ "tierInfo:Failed to fetch tier info: rpc" \in errorMessagesSent

====
